---------------------------- MODULE Spec2Model ----------------------------
(***************************************************************************)
(* Model of the trippy-ai multi-agent travel planner.                      *)
(*                                                                         *)
(*  - supervisor.py: the four lazily initialised worker agents (module     *)
(*    globals _flight_agent, ...), their getters and the four supervisor   *)
(*    tools call_<kind>_agent, executed by a pool of tool threads.         *)
(*  - itinerary_tools.py: plan_itinerary and optimize_route.               *)
(*  - recommendation_tools.py: get_recommendations and optimize_budget.    *)
(*  - legacy_agent/main.py: get_weather and convert_usd_to_ars.            *)
(*                                                                         *)
(* Each component has its own specification; the variables of the other    *)
(* components stay at their initial values.                                *)
(***************************************************************************)
EXTENDS Integers, Sequences, FiniteSets

VARIABLES
    agents,     \* supervisor.py globals _<kind>_agent: 0 is None, i > 0 the i-th instance built
    created,    \* per kind, how many times create_<kind>_agent() has returned an instance
    pc,         \* per tool thread, its position inside call_<kind>_agent
    kind,       \* per tool thread, which call_<kind>_agent it is running
    tmp,        \* per tool thread, the value create_<kind>_agent() returned, not yet stored
    agent,      \* per tool thread, the local `agent` of call_<kind>_agent
    exc,        \* per tool thread, the exception raised inside the try block, if any
    result,     \* per tool thread, the value call_<kind>_agent returned
    ncalls,     \* number of tool calls started so far
    gets,       \* per kind, the instances _get_<kind>_agent has returned, in order (history)
    fails,      \* per kind, how many times create_<kind>_agent() has raised (history)
    itin,       \* the last plan_itinerary call: its arguments and what it returned
    route,      \* the last optimize_route call: its argument and what it returned
    budg,       \* the last optimize_budget call: its arguments and what it returned
    recs,       \* the last get_recommendations call: its arguments and what it returned
    wx,         \* the last get_weather call: its arguments, the service's answer, the result
    fx,         \* the last convert_usd_to_ars call: its argument, the service's answer, the result
    escaped     \* the exception that left a tool function instead of a return value, if any

vars == <<agents, created, pc, kind, tmp, agent, exc, result, ncalls, gets, fails, itin, route,
         budg, recs, wx, fx, escaped>>

dispatchVars == <<agents, created, pc, kind, tmp, agent, exc, result, ncalls, gets, fails>>

toolVars == <<itin, route, budg, recs, wx, fx, escaped>>

-----------------------------------------------------------------------------
(* Bounds of the model *)

NThreads == 2

MaxCalls == 2

Threads == 1..NThreads

-----------------------------------------------------------------------------
(* supervisor.py: worker registry and supervisor tools *)

Kinds == {"flight", "activity", "weather", "budget"}

None == 0

NoExc == "none"

NoCall == [op |-> "none"]

\* What agent.invoke(...) can return: a dict whose "messages" list ends in a
\* message with content, ends in an object without a content attribute, or is
\* empty or absent.
InvokeShapes == {"content", "no_content_attr", "no_messages"}

\* Exceptions the try block of call_<kind>_agent can see.
ConstructError == "ConstructError"

InvokeError == "InvokeError"

\* The module starts with the four globals set to None and no tool running.
DispatchInit ==
    /\ agents = [k \in Kinds |-> None]
    /\ created = [k \in Kinds |-> 0]
    /\ pc = [t \in Threads |-> "idle"]
    /\ kind = [t \in Threads |-> "flight"]
    /\ tmp = [t \in Threads |-> None]
    /\ agent = [t \in Threads |-> None]
    /\ exc = [t \in Threads |-> NoExc]
    /\ result = [t \in Threads |-> <<>>]
    /\ ncalls = 0
    /\ gets = [k \in Kinds |-> <<>>]
    /\ fails = [k \in Kinds |-> 0]

\* A getter that constructs on every call.
SlotEmptyAlways(k) == TRUE

\* `if _<kind>_agent is None`
SlotEmpty(k) == agents[k] = None

\* f"Error in <kind> agent: {str(e)}", one literal per tool function.
ErrorText(k, e) ==
    CASE k = "flight" -> <<"Error in ", "flight", " agent: ", e>>
      [] k = "activity" -> <<"Error in ", "activity", " agent: ", e>>
      [] k = "weather" -> <<"Error in ", "weather", " agent: ", e>>
      [] k = "budget" -> <<"Error in ", "budget", " agent: ", e>>

\* A tool that always returns the string form of the whole result.
ResultTextWhole(shape) == <<"str(result)", shape>>

\* The tool's return value when nothing was raised: str(last_message.content)
\* when the messages list is non-empty and its last element has a content
\* attribute, str(result) otherwise.
ResultText(shape) ==
    IF shape = "content" THEN <<"str(content)">> ELSE <<"str(result)", shape>>

\* A tool thread enters call_<kind>_agent(query) and its try block.
Call(t, k) ==
    /\ pc[t] = "idle"
    /\ ncalls < MaxCalls
    /\ pc' = [pc EXCEPT ![t] = "get"]
    /\ kind' = [kind EXCEPT ![t] = k]
    /\ ncalls' = ncalls + 1
    /\ UNCHANGED <<toolVars, fails, gets, agents, created, tmp, agent, exc, result>>

\* The same, from a caller that starts a call only when no other is running.
CallSeq(t, k) ==
    /\ \A u \in Threads : pc[u] = "idle"
    /\ Call(t, k)

\* _get_<kind>_agent: the test of the global.
GetCheck(t) ==
    /\ pc[t] = "get"
    /\ pc' = [pc EXCEPT ![t] = IF SlotEmpty(kind[t]) THEN "construct" ELSE "ret"]
    /\ UNCHANGED <<toolVars, fails, gets, agents, created, kind, tmp, agent, exc, result, ncalls>>

\* A tool without the handler: the exception leaves call_<kind>_agent.
Propagate(t, e) ==
    /\ pc' = [pc EXCEPT ![t] = "raised"]
    /\ exc' = [exc EXCEPT ![t] = e]
    /\ UNCHANGED result

\* `except Exception as e: return f"Error in ..."`: the handler of the try block.
Handle(t, e) ==
    /\ pc' = [pc EXCEPT ![t] = "done"]
    /\ exc' = [exc EXCEPT ![t] = e]
    /\ result' = [result EXCEPT ![t] = ErrorText(kind[t], e)]

\* create_<kind>_agent() returns a new instance.
ConstructOk(t) ==
    /\ pc[t] = "construct"
    /\ created' = [created EXCEPT ![kind[t]] = @ + 1]
    /\ tmp' = [tmp EXCEPT ![t] = created[kind[t]] + 1]
    /\ pc' = [pc EXCEPT ![t] = "store"]
    /\ UNCHANGED <<toolVars, fails, gets, agents, kind, agent, exc, result, ncalls>>

\* A getter that keeps the failure in the global.
ConstructFailCached(t) ==
    /\ pc[t] = "construct"
    /\ Handle(t, ConstructError)
    /\ fails' = [fails EXCEPT ![kind[t]] = @ + 1]
    /\ agents' = [agents EXCEPT ![kind[t]] = -1]
    /\ UNCHANGED <<toolVars, gets, created, kind, tmp, agent, ncalls>>

\* create_<kind>_agent() raises; the global is not assigned.
ConstructFail(t) ==
    /\ pc[t] = "construct"
    /\ Handle(t, ConstructError)
    /\ fails' = [fails EXCEPT ![kind[t]] = @ + 1]
    /\ UNCHANGED <<toolVars, gets, agents, created, kind, tmp, agent, ncalls>>

\* `_<kind>_agent = create_<kind>_agent()`: the store to the global.
Store(t) ==
    /\ pc[t] = "store"
    /\ agents' = [agents EXCEPT ![kind[t]] = tmp[t]]
    /\ pc' = [pc EXCEPT ![t] = "ret"]
    /\ UNCHANGED <<toolVars, fails, gets, created, kind, tmp, agent, exc, result, ncalls>>

\* `return _<kind>_agent`: the global is read again, and bound to `agent`.
GetReturn(t) ==
    /\ pc[t] = "ret"
    /\ agent' = [agent EXCEPT ![t] = agents[kind[t]]]
    /\ gets' = [gets EXCEPT ![kind[t]] = Append(@, agents[kind[t]])]
    /\ pc' = [pc EXCEPT ![t] = "invoke"]
    /\ UNCHANGED <<toolVars, fails, agents, created, kind, tmp, exc, result, ncalls>>

\* agent.invoke(...) returns and the tool extracts its text.
InvokeOk(t) ==
    /\ pc[t] = "invoke"
    /\ \E shape \in InvokeShapes :
         result' = [result EXCEPT ![t] = ResultText(shape)]
    /\ pc' = [pc EXCEPT ![t] = "done"]
    /\ UNCHANGED <<toolVars, fails, gets, agents, created, kind, tmp, agent, exc, ncalls>>

\* agent.invoke(...) raises.
InvokeFail(t) ==
    /\ pc[t] = "invoke"
    /\ Handle(t, InvokeError)
    /\ UNCHANGED <<toolVars, fails, gets, agents, created, kind, tmp, agent, ncalls>>

\* The tool has returned; the thread is free for the next tool call.
Finish(t) ==
    /\ pc[t] = "done"
    /\ pc' = [pc EXCEPT ![t] = "idle"]
    /\ tmp' = [tmp EXCEPT ![t] = None]
    /\ agent' = [agent EXCEPT ![t] = None]
    /\ exc' = [exc EXCEPT ![t] = NoExc]
    /\ result' = [result EXCEPT ![t] = <<>>]
    /\ kind' = [kind EXCEPT ![t] = "flight"]
    /\ UNCHANGED <<toolVars, fails, gets, agents, created, ncalls>>

ToolStep(t) ==
    \/ GetCheck(t)
    \/ ConstructOk(t)
    \/ ConstructFail(t)
    \/ Store(t)
    \/ GetReturn(t)
    \/ InvokeOk(t)
    \/ InvokeFail(t)
    \/ Finish(t)

\* Tool calls of one turn run on a thread pool: any interleaving.
DispatchNext ==
    \E t \in Threads : (\E k \in Kinds : Call(t, k)) \/ ToolStep(t)

\* Tool calls made one after the other.
SeqNext ==
    \E t \in Threads : (\E k \in Kinds : CallSeq(t, k)) \/ ToolStep(t)

Init ==
    /\ DispatchInit
    /\ itin = NoCall
    /\ route = NoCall
    /\ budg = NoCall
    /\ recs = NoCall
    /\ wx = NoCall
    /\ fx = NoCall
    /\ escaped = NoCall

Spec == Init /\ [][DispatchNext]_vars

SpecSeq == Init /\ [][SeqNext]_vars

-----------------------------------------------------------------------------
(* itinerary_tools.py: plan_itinerary *)

\* Text is a sequence of characters. Only letters occur in the model's inputs:
\* str.contains treats its pattern as a regular expression, and a pattern made
\* of letters (joined by "|") matches exactly where one of the joined words is
\* a substring.
\* str.lower() on one character, which is also how re.IGNORECASE compares:
\* every upper-case letter folds to its lower-case letter.
Lower(c) ==
    CASE c = "A" -> "a"
      [] c = "B" -> "b"
      [] c = "C" -> "c"
      [] c = "D" -> "d"
      [] c = "E" -> "e"
      [] c = "F" -> "f"
      [] c = "G" -> "g"
      [] c = "H" -> "h"
      [] c = "I" -> "i"
      [] c = "J" -> "j"
      [] c = "K" -> "k"
      [] c = "L" -> "l"
      [] c = "M" -> "m"
      [] c = "N" -> "n"
      [] c = "O" -> "o"
      [] c = "P" -> "p"
      [] c = "Q" -> "q"
      [] c = "R" -> "r"
      [] c = "S" -> "s"
      [] c = "T" -> "t"
      [] c = "U" -> "u"
      [] c = "V" -> "v"
      [] c = "W" -> "w"
      [] c = "X" -> "x"
      [] c = "Y" -> "y"
      [] c = "Z" -> "z"
      [] OTHER -> c

\* Series.str.contains(pat, case=False): pat occurs in text, letter case ignored.
ContainsCI(text, pat) ==
    \E i \in 0..(Len(text) - Len(pat)) :
        \A j \in 1..Len(pat) : Lower(text[i + j]) = Lower(pat[j])

\* Series.str.contains('|'.join(pats), case=False): some joined word occurs.
\* The join of an empty list is the empty pattern, which matches every text.
ContainsAnyCI(text, pats) ==
    IF pats = <<>> THEN ContainsCI(text, <<>>)
    ELSE \E p \in 1..Len(pats) : ContainsCI(text, pats[p])

\* df['cost_usd'].sum() and the loop's `total_cost += cost`.
RECURSIVE SumCost(_)
SumCost(rows) ==
    IF rows = <<>> THEN 0 ELSE Head(rows).cost_usd + SumCost(Tail(rows))

\* An optional argument or dict key: <<>> when None or missing, <<v>> when given.
Absent == <<>>

Some(v) == <<v>>

\* Python's // on integers: floor division (b # 0).
FloorDiv(a, b) ==
    IF b > 0 THEN a \div b ELSE (-a) \div (-b)

Max(a, b) == IF a >= b THEN a ELSE b

Min(a, b) == IF a <= b THEN a ELSE b

\* list[start:end] for 0 <= start, as 0-based indices of the list.
SliceIdx(len, start, end) ==
    [i \in 1..Max(0, Min(end, len) - Min(start, len)) |-> Min(start, len) + i - 1]

\* `city_activities = df[df['city'].str.contains(city, case=False, na=False)]`
CityFilter(df, city) ==
    LET Keep(r) == ContainsCI(r.city, city) IN SelectSeq(df, Keep)

\* `if activities: city_activities = city_activities[...activity_name...contains('|'.join(activities))]`
NameFilter(rows, activities) ==
    IF activities = Absent \/ activities[1] = <<>> THEN rows
    ELSE LET Keep(r) == ContainsAnyCI(r.activity_name, activities[1]) IN SelectSeq(rows, Keep)

\* `if 'categories' in preferences: ...category...contains('|'.join(categories))`
CategoryFilter(rows, preferences) ==
    IF preferences = Absent \/ preferences[1].categories = Absent THEN rows
    ELSE LET Keep(r) == ContainsAnyCI(r.category, preferences[1].categories[1])
         IN SelectSeq(rows, Keep)

\* `if 'max_cost' in preferences: city_activities[city_activities['cost_usd'] <= max_cost]`
MaxCostFilter(rows, preferences) ==
    IF preferences = Absent \/ preferences[1].max_cost = Absent THEN rows
    ELSE LET Keep(r) == r.cost_usd <= preferences[1].max_cost[1] IN SelectSeq(rows, Keep)

\* The rows left after the name, category and cost filters (activities_list).
Criteria(rows, activities, preferences) ==
    MaxCostFilter(CategoryFilter(NameFilter(rows, activities), preferences), preferences)

\* A planner that gives a day as many activities as there are.
ActivitiesPerDayAll(n, days) == Max(1, n)

\* `activities_per_day = max(1, len(activities_list) // days)`
ActivitiesPerDay(n, days) == Max(1, FloorDiv(n, days))

\* A planner that hands every day the first slice.
DaySliceFirst(n, days, day) == SliceIdx(n, 0, ActivitiesPerDay(n, days))

\* start_idx, end_idx and `activities_list[start_idx:end_idx]`, as 0-based indices.
DaySlice(n, days, day) ==
    LET start_idx == (day - 1) * ActivitiesPerDay(n, days)
        end_idx == Min(start_idx + ActivitiesPerDay(n, days), n)
    IN SliceIdx(n, start_idx, end_idx)

\* A planner without the cycling step.
BackfillNone(n, day) == <<>>

\* `activities_list[(day - 1) % n:(day - 1) % n + 1]`, as 0-based indices.
Backfill(n, day) == SliceIdx(n, (day - 1) % n, ((day - 1) % n) + 1)

\* day_activities of one day: its slice, or the cycled activity when the slice is empty.
DayActivities(n, days, day) ==
    IF DaySlice(n, days, day) = <<>> THEN Backfill(n, day) ELSE DaySlice(n, days, day)

\* A day's section that reports the cost of every activity of the trip.
DayPlanTripCost(activities_list, days, day) ==
    LET idx == DayActivities(Len(activities_list), days, day)
    IN [day |-> day,
        cycled |-> DaySlice(Len(activities_list), days, day) = <<>>,
        idx |-> idx,
        total_cost |-> SumCost(activities_list)]

\* One "Day <day>:" section: its activities and "Day <day> Total Cost".
DayPlan(activities_list, days, day) ==
    LET idx == DayActivities(Len(activities_list), days, day)
    IN [day |-> day,
        cycled |-> DaySlice(Len(activities_list), days, day) = <<>>,
        idx |-> idx,
        total_cost |-> SumCost([i \in 1..Len(idx) |-> activities_list[idx[i] + 1]])]

\* A loop that runs at least once.
DayRangeAtLeastOne(days) == 1..Max(1, days)

\* `for day in range(1, days + 1)`: no day when days < 1.
DayRange(days) == 1..days

\* `activities_list = city_activities.to_dict('records')` after all filters.
activities_list(df, city, activities, preferences) ==
    Criteria(CityFilter(df, city), activities, preferences)

\* A planner that never takes the first early return.
NoCityRowsNever(rows) == FALSE

\* `if city_activities.empty` after the city filter.
NoCityRows(rows) == rows = <<>>

\* plan_itinerary's return value. A text is a list of its parts; an itinerary
\* is kept as the data its text is formatted from.
plan_itinerary(df, city, days, activities, preferences) ==
    LET city_activities == CityFilter(df, city)
        records == activities_list(df, city, activities, preferences)
    IN IF NoCityRows(city_activities)
         THEN [kind |-> "text", text |-> <<"No activities found for ", city>>]
       ELSE IF records = <<>>
         THEN [kind |-> "text", text |-> <<"No activities match the criteria for ", city>>]
       ELSE IF days = 0
         THEN [kind |-> "text",
               text |-> <<"Error planning itinerary: ", "integer division or modulo by zero">>]
       ELSE [kind |-> "itinerary",
             city |-> city,
             days |-> days,
             plan |-> [day \in DayRange(days) |-> DayPlan(records, days, day)],
             total_trip_cost |-> SumCost(records)]

\* The inputs the model draws plan_itinerary's arguments from.
MaxRows == 6

MaxDays == 4

RowUniverse ==
    { [city |-> <<"P", "a">>, activity_name |-> <<"m", "u">>, category |-> <<"c", "u">>, cost_usd |-> 0],
      [city |-> <<"P", "a">>, activity_name |-> <<"t", "o">>, category |-> <<"a", "v">>, cost_usd |-> 10],
      [city |-> <<"R", "o">>, activity_name |-> <<"m", "u">>, category |-> <<"c", "u">>, cost_usd |-> 25] }

\* activities.csv: any table of at most MaxRows rows.
Datasets == UNION { [1..k -> RowUniverse] : k \in 0..MaxRows }

CityArgs == { <<"p", "a">>, <<"z">>, <<>> }

DaysArgs == (-1)..MaxDays

ActivitiesArgs == { Absent, Some(<<<<"M", "u">>>>), Some(<<<<"t">>, <<"z">>>>) }

PreferencesArgs ==
    { Absent,
      Some([categories |-> Some(<<<<"C", "u">>>>), max_cost |-> Absent]),
      Some([categories |-> Absent, max_cost |-> Some(5)]),
      Some([categories |-> Some(<<<<"g", "a">>, <<"a", "v">>>>), max_cost |-> Some(5)]) }

\* One call of the plan_itinerary tool.
CallPlanItinerary ==
    /\ itin = NoCall
    /\ \E df \in Datasets, city \in CityArgs, days \in DaysArgs,
          activities \in ActivitiesArgs, preferences \in PreferencesArgs :
         itin' = [op |-> "plan_itinerary",
                  df |-> df,
                  city |-> city,
                  days |-> days,
                  activities |-> activities,
                  preferences |-> preferences,
                  result |-> plan_itinerary(df, city, days, activities, preferences)]
    /\ UNCHANGED <<dispatchVars, route, budg, recs, wx, fx, escaped>>

ItinNext == CallPlanItinerary

SpecItinerary == Init /\ [][ItinNext]_vars

-----------------------------------------------------------------------------
(* itinerary_tools.py: optimize_route *)

\* A priority list with its first two categories exchanged.
category_order_swapped ==
    <<"aventura", "cultura", "gastronomia", "deportes", "entretenimiento">>

category_order == <<"cultura", "aventura", "gastronomia", "deportes", "entretenimiento">>

\* `[a for a in activities if a.get('category') == category]`
category_activities(activities, category) ==
    LET Keep(a) == a.category = category IN SelectSeq(activities, Keep)

\* The loop over category_order: sorted_activities after its first k rounds.
RECURSIVE sorted_activities(_, _)
sorted_activities(activities, k) ==
    IF k = 0 THEN <<>>
    ELSE sorted_activities(activities, k - 1)
            \o category_activities(activities, category_order[k])

\* A remainder that keeps only the activities without a category.
remaining_uncategorised(activities, sorted) ==
    LET Keep(a) == a.category = "None" IN SelectSeq(activities, Keep)

\* A remainder given back in reverse order.
remaining_reversed(activities, sorted) ==
    LET Keep(a) == \A i \in DOMAIN sorted : sorted[i] # a
        left == SelectSeq(activities, Keep)
    IN [i \in 1..Len(left) |-> left[Len(left) + 1 - i]]

\* `remaining = [a for a in activities if a not in sorted_activities]`:
\* `not in` compares the dicts with ==.
remaining(activities, sorted) ==
    LET Keep(a) == \A i \in DOMAIN sorted : sorted[i] # a IN SelectSeq(activities, Keep)

\* optimize_route's return value; city is not used.
optimize_route(activities, city) ==
    LET sorted == sorted_activities(activities, Len(category_order))
    IN sorted \o remaining(activities, sorted)

\* The inputs the model draws optimize_route's argument from. An activity is
\* a dict; a.get('category') is one of the listed categories, a category that
\* is not listed ("otra"), or None when the key is missing ("None").
MaxActivities == 4

ActivityUniverse ==
    [activity_name : {"a", "b"},
     category : {"cultura", "aventura", "gastronomia", "deportes", "entretenimiento",
                 "otra", "None"}]

ActivityLists == UNION { [1..k -> ActivityUniverse] : k \in 0..MaxActivities }

\* A Python str passed where an activity dict is expected.
NotADict == [str |-> "Louvre"]

IsDict(a) == "str" \notin DOMAIN a

\* `a.get('category')` in the first comprehension raises AttributeError on an
\* element that is no dict.
RouteRaises(activities) == \E i \in DOMAIN activities : ~IsDict(activities[i])

\* Lists of at most MaxActivities elements with an element that is no dict.
MalformedLists ==
    { l \in UNION { [1..k -> {NotADict, [activity_name |-> "a", category |-> "cultura"]}] :
                      k \in 1..MaxActivities } : RouteRaises(l) }

\* One call of the optimize_route tool.
CallOptimizeRoute ==
    /\ route = NoCall
    /\ escaped = NoCall
    /\ \E activities \in ActivityLists, city \in {<<"P", "a">>} :
         route' = [op |-> "optimize_route",
                   activities |-> activities,
                   city |-> city,
                   result |-> optimize_route(activities, city)]
    /\ UNCHANGED <<dispatchVars, itin, budg, recs, wx, fx, escaped>>

\* One call of the optimize_route tool with a malformed list: the function has
\* no try block, so the AttributeError leaves it and nothing is returned.
CallOptimizeRouteMalformed ==
    /\ route = NoCall
    /\ escaped = NoCall
    /\ \E activities \in MalformedLists, city \in {<<"P", "a">>} :
         escaped' = [op |-> "optimize_route",
                     activities |-> activities,
                     city |-> city,
                     exception |-> "AttributeError"]
    /\ UNCHANGED <<dispatchVars, itin, route, budg, recs, wx, fx>>

RouteNext == CallOptimizeRoute \/ CallOptimizeRouteMalformed

SpecRoute == Init /\ [][RouteNext]_vars

-----------------------------------------------------------------------------
(* recommendation_tools.py: optimize_budget                                 *)
(*                                                                          *)
(* Money arguments are counted in cents (1 USD = 100).  The function works  *)
(* on floats and prints every amount with the format ".2f"; the model keeps *)
(* each float as an exact fraction num/den of a cent and Fmt2f gives the    *)
(* cents that format can print.  cost_usd of a dataset row is in whole USD. *)

MaxCents == 9

MaxBudgetDays == 5

MaxBudgetRows == 2

\* f"{x:.2f}" for x = num/den cents, num >= 0, den > 0: the nearest cent.  A
\* value exactly halfway between two cents is not a binary float; the float
\* standing for it lies on either side, so either cent can be printed.
Fmt2f(num, den) ==
    LET q == num \div den
        r == num % den
    IN  IF 2 * r < den THEN {q}
        ELSE IF 2 * r > den THEN {q + 1}
        ELSE {q, q + 1}

OverspentOrEven(remaining_budget) == remaining_budget <= 0

\* `if remaining_budget < 0`
Overspent(remaining_budget) == remaining_budget < 0

AllocationTenthsUneven ==
    [activity |-> 4, food |-> 3, accommodation |-> 2, misc |-> 2]

\* The factors 0.4, 0.3, 0.2, 0.1 of the allocation, in tenths.
AllocationTenths ==
    [activity |-> 4, food |-> 3, accommodation |-> 2, misc |-> 1]

PerDayWhole(tenths, remaining_budget, days) ==
    [num |-> tenths * remaining_budget, den |-> 10]

\* `<share> / days if days > 0 else 0`, for the share tenths/10 of the
\* remaining budget: the exact quotient as a fraction of a cent.
PerDay(tenths, remaining_budget, days) ==
    IF days > 0
    THEN [num |-> tenths * remaining_budget, den |-> 10 * days]
    ELSE [num |-> 0, den |-> 1]

AffordableAll(rows, activity_per_day) == rows

\* `city_activities['cost_usd'] <= activity_per_day`, cost_usd in USD.
Affordable(rows, activity_per_day) ==
    LET Keep(r) == r.cost_usd * 100 * activity_per_day.den <= activity_per_day.num
    IN  SelectSeq(rows, Keep)

\* affordable_activities.head(5)
SampleSize == 5

HeadRows(rows, n) == SubSeq(rows, 1, Min(n, Len(rows)))

\* The values optimize_budget can return for a readable dataset df.
optimize_budget(df, total_budget, flight_cost, days, city) ==
    LET remaining_budget == total_budget - flight_cost
        activity_per_day == PerDay(AllocationTenths.activity, remaining_budget, days)
        food_per_day == PerDay(AllocationTenths.food, remaining_budget, days)
        city_activities == CityFilter(df, city)
        affordable_activities == Affordable(city_activities, activity_per_day)
    IN  IF Overspent(remaining_budget)
        THEN { [kind |-> "text",
                text |-> <<"Error: Flight cost ($", flight_cost,
                           ") exceeds total budget ($", total_budget, ")">>] }
        ELSE { [kind |-> "breakdown",
                city |-> city,
                days |-> days,
                total_budget |-> total_budget,
                flight_cost |-> flight_cost,
                remaining_budget |-> remaining_budget,
                activity_budget |-> a,
                activity_per_day |-> apd,
                food_budget |-> f,
                food_per_day |-> fpd,
                accommodation_budget |-> acc,
                misc_budget |-> m,
                sample_shown |-> city_activities # <<>>,
                sample |-> IF city_activities # <<>>
                           THEN HeadRows(affordable_activities, SampleSize)
                           ELSE <<>>,
                consider_free |-> city_activities # <<>> /\ affordable_activities = <<>>] :
               a \in Fmt2f(AllocationTenths.activity * remaining_budget, 10),
               f \in Fmt2f(AllocationTenths.food * remaining_budget, 10),
               acc \in Fmt2f(AllocationTenths.accommodation * remaining_budget, 10),
               m \in Fmt2f(AllocationTenths.misc * remaining_budget, 10),
               apd \in Fmt2f(activity_per_day.num, activity_per_day.den),
               fpd \in Fmt2f(food_per_day.num, food_per_day.den) }

RECURSIVE Repeat(_, _)
Repeat(rows, n) == IF n = 0 THEN <<>> ELSE rows \o Repeat(rows, n - 1)

\* activities.csv for optimize_budget: a table of at most MaxBudgetRows rows,
\* or three copies of it (more rows than the sample shows).
BudgetDatasets ==
    { Repeat(base, n) :
        base \in UNION { [1..k -> RowUniverse] : k \in 0..MaxBudgetRows },
        n \in {1, 3} }

\* Amounts in cents: the small ones, 50.00, and those of the budget scenarios
\* (1000 against 1200; 2000 against 500).
TotalBudgetArgs == (0..MaxCents) \cup {5000, 100000, 200000}

FlightCostArgs == (0..MaxCents) \cup {50000, 120000}

BudgetDaysArgs == (-1)..MaxBudgetDays

BudgetCityArgs == { <<"p", "a">>, <<"z">> }

\* One call of the optimize_budget tool.
CallOptimizeBudget ==
    /\ budg = NoCall
    /\ \E df \in BudgetDatasets, total_budget \in TotalBudgetArgs,
          flight_cost \in FlightCostArgs, days \in BudgetDaysArgs,
          city \in BudgetCityArgs :
         \E res \in optimize_budget(df, total_budget, flight_cost, days, city) :
            budg' = [op |-> "optimize_budget",
                     df |-> df,
                     total_budget |-> total_budget,
                     flight_cost |-> flight_cost,
                     days |-> days,
                     city |-> city,
                     result |-> res]
    /\ UNCHANGED <<dispatchVars, itin, route, recs, wx, fx, escaped>>

BudgetNext == CallOptimizeBudget

SpecBudget == Init /\ [][BudgetNext]_vars

-----------------------------------------------------------------------------
(* recommendation_tools.py: get_recommendations                             *)
(*                                                                          *)
(* Here cost_usd and budget are counted in cents, in multiples of 25 (a     *)
(* quarter of a dollar is a binary fraction, so the float sums and          *)
(* comparisons of the code are exact on them).                              *)

MaxRecRows == 3

TruthyUnlessNone(budget) == budget # Absent

\* `if budget:` -- None and 0 are both false.
Truthy(budget) == budget # Absent /\ budget[1] # 0

\* `if preferences: if 'categories' in preferences and preferences['categories']:`
\* keeps the rows whose category contains one of the given words.
PreferredFilter(rows, preferences) ==
    IF preferences = Absent \/ preferences[1].categories = Absent
          \/ preferences[1].categories[1] = <<>>
    THEN rows
    ELSE LET Keep(r) == ContainsAnyCI(r.category, preferences[1].categories[1])
         IN SelectSeq(rows, Keep)

value_score_paid_first(cost_usd) ==
    IF cost_usd > 0 THEN [num |-> 100, den |-> Max(cost_usd, 100)]
    ELSE [num |-> 0, den |-> 1]

\* `1.0 / max(x['cost_usd'], 1) if x['cost_usd'] > 0 else 2.0`, as a fraction
\* (one dollar is 100 cents).
value_score(cost_usd) ==
    IF cost_usd > 0 THEN [num |-> 100, den |-> Max(cost_usd, 100)]
    ELSE [num |-> 2, den |-> 1]

ScoreLess(s, t) == s.num * t.den < t.num * s.den

\* Code points of the characters that occur in category texts.
CharCode(c) ==
    CASE c = "C" -> 67
      [] c = "a" -> 97
      [] c = "c" -> 99
      [] c = "u" -> 117
      [] c = "v" -> 118

\* Python's str `<`: lexicographic by code point.
StrLess(a, b) ==
    \/ Len(a) < Len(b) /\ \A k \in 1..Len(a) : a[k] = b[k]
    \/ \E k \in 1..Min(Len(a), Len(b)) :
          /\ \A j \in 1..(k - 1) : a[j] = b[j]
          /\ CharCode(a[k]) < CharCode(b[k])

\* sort_values(by=['value_score', 'cost_usd'], ascending=[False, True]): is row
\* a ordered strictly before row b.
ValueBefore(a, b) ==
    \/ ScoreLess(value_score(b.cost_usd), value_score(a.cost_usd))
    \/ /\ ~ScoreLess(value_score(a.cost_usd), value_score(b.cost_usd))
       /\ a.cost_usd < b.cost_usd

\* sort_values(by=['cost_usd', 'category'], ascending=[True, True])
DisplayBefore(a, b) ==
    \/ a.cost_usd < b.cost_usd
    \/ a.cost_usd = b.cost_usd /\ StrLess(a.category, b.category)

\* A multi-column sort_values is stable: rows equal on every key keep their
\* order.  InsertByValue puts row r into the sorted rows behind every row that
\* is not ordered after it.
RECURSIVE InsertByValue(_, _)
InsertByValue(r, sorted) ==
    IF sorted = <<>> THEN <<r>>
    ELSE IF ValueBefore(r, Head(sorted)) THEN <<r>> \o sorted
    ELSE <<Head(sorted)>> \o InsertByValue(r, Tail(sorted))

RECURSIVE SortByValueFrom(_, _)
SortByValueFrom(rows, sorted) ==
    IF rows = <<>> THEN sorted
    ELSE SortByValueFrom(Tail(rows), InsertByValue(Head(rows), sorted))

SortByValue(rows) == SortByValueFrom(rows, <<>>)

RECURSIVE InsertForDisplay(_, _)
InsertForDisplay(r, sorted) ==
    IF sorted = <<>> THEN <<r>>
    ELSE IF DisplayBefore(r, Head(sorted)) THEN <<r>> \o sorted
    ELSE <<Head(sorted)>> \o InsertForDisplay(r, Tail(sorted))

RECURSIVE SortForDisplayFrom(_, _)
SortForDisplayFrom(rows, sorted) ==
    IF rows = <<>> THEN sorted
    ELSE SortForDisplayFrom(Tail(rows), InsertForDisplay(Head(rows), sorted))

SortForDisplayKeepOrder(rows) == rows

SortForDisplay(rows) == SortForDisplayFrom(rows, <<>>)

BudgetFitEach(rows, budget) ==
    LET Keep(r) == r.cost_usd <= budget IN SelectSeq(rows, Keep)

\* `cumulative_cost = ...cumsum(); city_activities[cumulative_cost <= budget]`:
\* the rows whose running total, themselves included, is within the budget.
RECURSIVE WithinBudgetFrom(_, _, _)
WithinBudgetFrom(rows, cumulative_cost, budget) ==
    IF rows = <<>> THEN <<>>
    ELSE LET running == cumulative_cost + Head(rows).cost_usd
         IN  (IF running <= budget THEN <<Head(rows)>> ELSE <<>>)
                \o WithinBudgetFrom(Tail(rows), running, budget)

BudgetPrefix(rows, budget) == WithinBudgetFrom(rows, 0, budget)

\* `top_n = min(10, len(city_activities))`
TopN == 10

OverageNever(budget, total_cost) == FALSE

\* `if budget and total_cost > budget`
Overage(budget, total_cost) == Truthy(budget) /\ total_cost > budget[1]

\* The value indicator printed under an item (20 dollars is 2000 cents).
ValueIndicator(cost_usd) ==
    IF cost_usd = 0 THEN "Great Value: Free activity"
    ELSE IF cost_usd < 2000 THEN "Good Value: Affordable option"
    ELSE "none"

\* The locals of get_recommendations once the city matched some row:
\* the rows after the preference filter, after the value sort, after the
\* budget cutoff, and the rows shown.
Recommend(df, city, preferences, budget) ==
    LET preferred == PreferredFilter(CityFilter(df, city), preferences)
        ranked == IF Truthy(budget) THEN SortByValue(preferred) ELSE preferred
        kept == IF Truthy(budget) THEN BudgetPrefix(ranked, budget[1]) ELSE preferred
        top_activities == HeadRows(SortForDisplay(kept), TopN)
    IN  [preferred |-> preferred, ranked |-> ranked, kept |-> kept,
         top_activities |-> top_activities]

get_recommendations(df, city, preferences, budget, days) ==
    IF CityFilter(df, city) = <<>>
    THEN [kind |-> "text", text |-> <<"No activities found for ", city>>]
    ELSE LET top_activities == Recommend(df, city, preferences, budget).top_activities
             total_cost == SumCost(top_activities)
         IN  [kind |-> "recommendations",
              city |-> city,
              header |-> IF Truthy(budget)
                         THEN <<"Budget-Conscious Recommendations (within $", budget[1], " USD):">>
                         ELSE <<"Top Recommendations:">>,
              items |-> [k \in 1..Len(top_activities) |->
                            [activity_name |-> top_activities[k].activity_name,
                             category |-> top_activities[k].category,
                             cost_usd |-> top_activities[k].cost_usd,
                             value |-> ValueIndicator(top_activities[k].cost_usd)]],
              total_cost |-> total_cost,
              warning |-> IF Overage(budget, total_cost)
                          THEN Some(<<"Note: Total exceeds budget by $",
                                      total_cost - budget[1], " USD">>)
                          ELSE Absent]

RecUniverse ==
    { [city |-> <<"P", "a">>, activity_name |-> <<"m", "u">>, category |-> <<"c", "u">>, cost_usd |-> 0],
      [city |-> <<"P", "a">>, activity_name |-> <<"m", "u">>, category |-> <<"c", "u">>, cost_usd |-> 50],
      [city |-> <<"P", "a">>, activity_name |-> <<"t", "o">>, category |-> <<"a", "v">>, cost_usd |-> 50],
      [city |-> <<"P", "a">>, activity_name |-> <<"t", "o">>, category |-> <<"a", "v">>, cost_usd |-> 100],
      [city |-> <<"P", "a">>, activity_name |-> <<"t", "o">>, category |-> <<"C", "u">>, cost_usd |-> 1000],
      [city |-> <<"R", "o">>, activity_name |-> <<"m", "u">>, category |-> <<"c", "u">>, cost_usd |-> 2500] }

\* activities.csv for get_recommendations: a table of at most MaxRecRows rows,
\* or four copies of it (more rows than are shown).
RecDatasets ==
    { Repeat(base, n) :
        base \in UNION { [1..k -> RecUniverse] : k \in 0..MaxRecRows },
        n \in {1, 4} }

RecCityArgs == { <<"p", "a">>, <<"z">> }

RecPreferencesArgs ==
    { Absent,
      Some([categories |-> Some(<<>>)]),
      Some([categories |-> Some(<<<<"C", "u">>>>)]) }

\* None, 0, a negative amount, 1.50 and 11.00 dollars.
RecBudgetArgs == { Absent, Some(0), Some(-100), Some(150), Some(1100) }

RecDaysArgs == { Absent, Some(3) }

\* One call of the get_recommendations tool.
CallGetRecommendations ==
    /\ recs = NoCall
    /\ \E df \in RecDatasets, city \in RecCityArgs, preferences \in RecPreferencesArgs,
          budget \in RecBudgetArgs, days \in RecDaysArgs :
         recs' = [op |-> "get_recommendations",
                  df |-> df,
                  city |-> city,
                  preferences |-> preferences,
                  budget |-> budget,
                  days |-> days,
                  locals |-> Recommend(df, city, preferences, budget),
                  result |-> get_recommendations(df, city, preferences, budget, days)]
    /\ UNCHANGED <<dispatchVars, itin, route, budg, wx, fx, escaped>>

RecNext == CallGetRecommendations

SpecRecommend == Init /\ [][RecNext]_vars

-----------------------------------------------------------------------------
(* legacy_agent/main.py: get_weather                                        *)
(*                                                                          *)
(* The weather service is outside the program: what requests.get and        *)
(* response.json() do is an input of the call, one of ServiceAnswers.       *)

MaxWxDays == 3

MaxWxEntries == 2

\* The keys of city_coords.
city_coords ==
    { <<"m", "a", "d", "r", "i", "d">>,
      <<"n", "e", "w", " ", "y", "o", "r", "k">>,
      <<"m", "i", "a", "m", "i">>,
      <<"s", "a", "n", "t", "i", "a", "g", "o">>,
      <<"l", "i", "m", "a">>,
      <<"r", "i", "o", " ", "d", "e", " ", "j", "a", "n", "e", "i", "r", "o">>,
      <<"p", "a", "r", "i", "s">>,
      <<"b", "a", "r", "c", "e", "l", "o", "n", "a">>,
      <<"r", "o", "m", "e">>,
      <<"l", "o", "n", "d", "o", "n">> }

\* str.lower() of a text, character by character.
LowerText(text) == [i \in DOMAIN text |-> Lower(text[i])]

KnownAlways(city) == TRUE

\* The negation of `city_lower not in city_coords`.
Known(city) == LowerText(city) \in city_coords

\* weather_conditions.get(weather_code, ("unknown", ...)): the condition text.
weather_conditions(weather_code) ==
    CASE weather_code = 0 -> "sunny"
      [] weather_code = 1 -> "mostly sunny"
      [] weather_code = 2 -> "partly cloudy"
      [] weather_code = 3 -> "cloudy"
      [] weather_code = 45 -> "foggy"
      [] weather_code = 48 -> "foggy"
      [] weather_code = 51 -> "light rain"
      [] weather_code = 53 -> "light rain"
      [] weather_code = 55 -> "moderate rain"
      [] weather_code = 61 -> "rain"
      [] weather_code = 63 -> "rain"
      [] weather_code = 65 -> "heavy rain"
      [] weather_code = 71 -> "snow"
      [] weather_code = 73 -> "snow"
      [] weather_code = 75 -> "heavy snow"
      [] weather_code = 77 -> "snow grains"
      [] weather_code = 80 -> "rain showers"
      [] weather_code = 81 -> "rain showers"
      [] weather_code = 82 -> "heavy rain showers"
      [] weather_code = 85 -> "snow showers"
      [] weather_code = 86 -> "heavy snow showers"
      [] weather_code = 95 -> "thunderstorm"
      [] weather_code = 96 -> "thunderstorm with hail"
      [] weather_code = 99 -> "thunderstorm with heavy hail"
      [] OTHER -> "unknown"

\* One block of the forecast text, for entry d of the service's daily data.
ForecastEntry(d) ==
    [date |-> d.time,
     condition |-> weather_conditions(d.weather_code),
     precipitation |-> IF d.precipitation_sum > 0 THEN Some(d.precipitation_sum) ELSE Absent]

WxPropagate(city, e) == [kind |-> "raised", exception |-> e]

\* `except Exception as e: return f"Error getting weather forecast: {str(e)}"`
WxOnException(city, e) ==
    [kind |-> "text", text |-> <<"Error getting weather forecast: ", e>>]

\* What get_weather returns for a known city once the service answered.
WeatherAfterRequest(city, days, answer) ==
    CASE answer.kind = "request raises" -> WxOnException(city, "ConnectionError")
      [] answer.kind = "json raises" -> WxOnException(city, "JSONDecodeError")
      [] answer.kind = "no daily" ->
            [kind |-> "text", text |-> <<"Weather forecast not available for ", city>>]
      [] answer.kind = "daily without time" -> WxOnException(city, "KeyError")
      [] answer.kind = "daily" ->
            [kind |-> "forecast",
             days |-> days,
             city |-> city,
             entries |-> [i \in DOMAIN answer.daily |-> ForecastEntry(answer.daily[i])]]

\* get_weather: the result and whether the service was contacted.
get_weather(city, days, answer) ==
    IF ~Known(city)
    THEN [requested |-> FALSE,
          result |-> [kind |-> "text", text |-> <<"Weather data not available for ", city>>]]
    ELSE [requested |-> TRUE,
          result |-> WeatherAfterRequest(city, days, answer)]

DailyUniverse ==
    [time : {"2025-01-01"}, weather_code : {0, 61, 4}, precipitation_sum : {0, 5}]

ServiceAnswers ==
    { [kind |-> k] : k \in {"request raises", "json raises", "no daily", "daily without time"} }
    \cup { [kind |-> "daily", daily |-> d] :
             d \in UNION { [1..k -> DailyUniverse] : k \in 0..MaxWxEntries } }

WxCityArgs ==
    { <<"P", "a", "r", "i", "s">>, <<"p", "a", "r", "i", "s">>, <<"R", "o", "m", "e">>,
      <<"p", "a", "r">>, <<"C", "u", "s", "c", "o">>, <<>> }

WxDaysArgs == 0..MaxWxDays

\* One call of get_weather.  The service's answer is recorded only when the
\* service was contacted.
CallGetWeather ==
    /\ wx = NoCall
    /\ \E city \in WxCityArgs, days \in WxDaysArgs, answer \in ServiceAnswers :
         LET out == get_weather(city, days, answer)
         IN  wx' = [op |-> "get_weather",
                    city |-> city,
                    days |-> days,
                    requested |-> out.requested,
                    answer |-> IF out.requested THEN answer ELSE [kind |-> "not asked"],
                    result |-> out.result]
    /\ UNCHANGED <<dispatchVars, itin, route, budg, recs, fx, escaped>>

WxNext == CallGetWeather

SpecWeather == Init /\ [][WxNext]_vars

-----------------------------------------------------------------------------
(* legacy_agent/main.py: convert_usd_to_ars                                 *)
(*                                                                          *)
(* amount_usd is counted in cents, the service's rate in thousandths of a   *)
(* peso per dollar; amounts are printed with ".2f" (Fmt2f).                 *)

MaxFxCents == 20

\* `fallback_rate = 1000`
fallback_rate == 1000

\* The fallback text of the else branch and of the except branch.
FallbackConversion(amount_usd) ==
    [kind |-> "conversion",
     amount_usd |-> amount_usd,
     amount_ars |-> amount_usd * fallback_rate,
     label |-> "approximate rate: ",
     rate |-> fallback_rate]

FxPropagate(amount_usd, e) == [kind |-> "raised", exception |-> e]

\* `except Exception as e:` of convert_usd_to_ars
FxOnException(amount_usd, e) == FallbackConversion(amount_usd)

\* The values convert_usd_to_ars can return for the service's answer.
convert_usd_to_ars(amount_usd, answer) ==
    CASE answer.kind = "request raises" -> { FxOnException(amount_usd, "ConnectionError") }
      [] answer.kind = "json raises" -> { FxOnException(amount_usd, "JSONDecodeError") }
      [] answer.kind = "no rates" -> { FallbackConversion(amount_usd) }
      [] answer.kind = "no ARS" -> { FallbackConversion(amount_usd) }
      [] answer.kind = "rate" ->
            { [kind |-> "conversion",
               amount_usd |-> amount_usd,
               amount_ars |-> ars,
               label |-> "rate: ",
               rate |-> shown] :
              ars \in Fmt2f(amount_usd * answer.rate, 1000),
              shown \in Fmt2f(answer.rate, 10) }

\* Rates 950.000, 1000.000 and 1234.567 pesos per dollar.
FxAnswers ==
    { [kind |-> k] : k \in {"request raises", "json raises", "no rates", "no ARS"} }
    \cup { [kind |-> "rate", rate |-> r] : r \in {950000, 1000000, 1234567} }

FxAmountArgs == (0..MaxFxCents) \cup {1000, 1500}

\* One call of convert_usd_to_ars.
CallConvertUsdToArs ==
    /\ fx = NoCall
    /\ \E amount_usd \in FxAmountArgs, answer \in FxAnswers :
         \E res \in convert_usd_to_ars(amount_usd, answer) :
            fx' = [op |-> "convert_usd_to_ars",
                   amount_usd |-> amount_usd,
                   answer |-> answer,
                   result |-> res]
    /\ UNCHANGED <<dispatchVars, itin, route, budg, recs, wx, escaped>>

FxNext == CallConvertUsdToArs

SpecCurrency == Init /\ [][FxNext]_vars

-----------------------------------------------------------------------------
(* Claims about the worker registry and the supervisor tools *)

\* C1: under concurrent first-time gets of one kind the worker constructor runs
\* at most once, so at most one instance per kind is ever created, and every
\* get of that kind returns the same instance.
C1_ConstructOnce ==
    \A k \in Kinds :
        /\ created[k] <= 1
        /\ \A i, j \in DOMAIN gets[k] : gets[k][i] = gets[k][j]

\* C2: with gets made one after the other, once the global of a kind is set it
\* is never changed and the constructor of that kind never runs again, and
\* every get that returns hands out the instance held by the global.
C2_CachedStep ==
    /\ \A k \in Kinds :
         agents[k] # None => agents'[k] = agents[k] /\ created'[k] = created[k]
    /\ \A k \in Kinds :
         \A i \in DOMAIN gets'[k] : gets'[k][i] # None /\ gets'[k][i] = agents'[k]

C2_SequentialGetCached == [][C2_CachedStep]_vars

\* C2 witness: a kind whose getter has returned twice after one construction.
C2_Witness ==
    \E k \in Kinds : Len(gets[k]) >= 2 /\ created[k] = 1 /\ agents[k] = 1

\* C3: no exception leaves a supervisor tool; a tool in which the getter or
\* agent.invoke raised has returned the text "Error in <kind> agent: <detail>".
C3_ToolNeverRaises ==
    \A t \in Threads :
        /\ pc[t] # "raised"
        /\ exc[t] # NoExc =>
             /\ pc[t] = "done"
             /\ result[t] = <<"Error in ", kind[t], " agent: ", exc[t]>>

\* C3 witness: one tool call failed in construction and another in invoke, of
\* two different kinds, and both have returned.
C3_Witness ==
    \E t, u \in Threads :
        /\ pc[t] = "done" /\ exc[t] = ConstructError
        /\ pc[u] = "done" /\ exc[u] = InvokeError
        /\ kind[t] = "budget" /\ kind[u] = "weather"

-----------------------------------------------------------------------------
(* Claims about plan_itinerary *)

\* The last call was plan_itinerary with days >= 1 and it returned an itinerary.
Planned == itin.op = "plan_itinerary" /\ itin.result.kind = "itinerary" /\ itin.days >= 1

\* Number of activities left by the filters of the last call.
PlannedN == Len(activities_list(itin.df, itin.city, itin.activities, itin.preferences))

\* The day's bucket without the cycled activity, as a set of list positions.
Bucket(d) == IF itin.result.plan[d].cycled THEN {}
             ELSE {itin.result.plan[d].idx[i] : i \in DOMAIN itin.result.plan[d].idx}

\* C6: the day buckets, cycled activities left out, partition the filtered
\* activities exactly (each activity is in exactly one bucket), and the bucket
\* sizes differ by at most one.
C6_BucketsPartition ==
    Planned =>
        /\ \A i \in 0..(PlannedN - 1) :
             Cardinality({d \in 1..itin.days : i \in Bucket(d)}) = 1
        /\ \A d, e \in 1..itin.days :
             Cardinality(Bucket(d)) - Cardinality(Bucket(e)) <= 1

\* C7: every day 1..days has at least one activity; a day whose slice
\* [(day-1)*per_day, ...) starts past the end of the list holds exactly the
\* activity at position (day-1) mod n.
C7_EveryDayHasActivity ==
    Planned =>
        LET n == PlannedN
            per_day == IF n \div itin.days >= 1 THEN n \div itin.days ELSE 1
        IN /\ DOMAIN itin.result.plan = 1..itin.days
           /\ \A d \in 1..itin.days :
                /\ Len(itin.result.plan[d].idx) >= 1
                /\ (d - 1) * per_day >= n =>
                     itin.result.plan[d].idx = <<(d - 1) % n>>

\* C7 witness: 2 activities over 4 days; days 3 and 4 are cycled back to
\* positions 0 and 1.
C7_Witness ==
    /\ Planned
    /\ PlannedN = 2
    /\ itin.days = 4
    /\ itin.result.plan[3].idx = <<0>>
    /\ itin.result.plan[4].idx = <<1>>
    /\ itin.result.plan[4].cycled

\* C8: with at least as many activities as days no day is cycled and no
\* activity is in two days (6 activities over 3 days: 3 days of 2).
C8_NoRepeatWhenEnough ==
    (Planned /\ PlannedN >= itin.days) =>
        /\ \A d \in 1..itin.days : ~itin.result.plan[d].cycled
        /\ \A d, e \in 1..itin.days :
             \A i \in DOMAIN itin.result.plan[d].idx, j \in DOMAIN itin.result.plan[e].idx :
                itin.result.plan[d].idx[i] = itin.result.plan[e].idx[j] => (d = e /\ i = j)
        /\ (PlannedN = 6 /\ itin.days = 3) =>
             \A d \in 1..3 : Len(itin.result.plan[d].idx) = 2

\* C8 witness: 6 activities over 3 days, planned as positions 0-1, 2-3, 4-5.
C8_Witness ==
    /\ Planned
    /\ PlannedN = 6
    /\ itin.days = 3
    /\ itin.result.plan[1].idx = <<0, 1>>
    /\ itin.result.plan[2].idx = <<2, 3>>
    /\ itin.result.plan[3].idx = <<4, 5>>

\* C9: plan_itinerary returns "No activities found for <city>" when no row
\* matches the city and "No activities match the criteria for <city>" when
\* rows match the city and the other filters remove them all; neither is an
\* itinerary.
C9_EmptyTexts ==
    itin.op = "plan_itinerary" =>
        LET cityMatches == {i \in DOMAIN itin.df : ContainsCI(itin.df[i].city, itin.city)}
        IN /\ cityMatches = {} =>
                itin.result = [kind |-> "text",
                               text |-> <<"No activities found for ", itin.city>>]
           /\ (cityMatches # {} /\ PlannedN = 0) =>
                itin.result = [kind |-> "text",
                               text |-> <<"No activities match the criteria for ", itin.city>>]

\* C9 witness: rows match the city, the max_cost filter removes them all, and
\* the criteria text was returned.
C9_Witness ==
    /\ itin.op = "plan_itinerary"
    /\ itin.city = <<"p", "a">>
    /\ Len(CityFilter(itin.df, itin.city)) = 2
    /\ itin.preferences = Some([categories |-> Absent, max_cost |-> Some(5)])
    /\ itin.result.kind = "text"
    /\ itin.result.text[1] = "No activities match the criteria for "

-----------------------------------------------------------------------------
(* Claims about optimize_route *)

\* How many times activity x occurs in list s.
Count(x, s) == Cardinality({i \in DOMAIN s : s[i] = x})

\* C10: the list optimize_route returns is a permutation of its argument: the
\* same length and every activity the same number of times.
C10_RouteIsPermutation ==
    route.op = "optimize_route" =>
        /\ Len(route.result) = Len(route.activities)
        /\ \A x \in ActivityUniverse :
             Count(x, route.result) = Count(x, route.activities)

\* C10 witness: an unlisted-category activity given twice, an activity without
\* a category and a listed one; the listed one moved to the front.
C10_Witness ==
    /\ route.op = "optimize_route"
    /\ route.activities =
         << [activity_name |-> "a", category |-> "otra"],
            [activity_name |-> "b", category |-> "None"],
            [activity_name |-> "a", category |-> "otra"],
            [activity_name |-> "b", category |-> "deportes"] >>
    /\ route.result =
         << [activity_name |-> "b", category |-> "deportes"],
            [activity_name |-> "a", category |-> "otra"],
            [activity_name |-> "b", category |-> "None"],
            [activity_name |-> "a", category |-> "otra"] >>

\* Place of an activity's category in the priority list cultura, aventura,
\* gastronomia, deportes, entretenimiento; 6 for any other or missing category.
PriorityRank(a) ==
    CASE a.category = "cultura" -> 1
      [] a.category = "aventura" -> 2
      [] a.category = "gastronomia" -> 3
      [] a.category = "deportes" -> 4
      [] a.category = "entretenimiento" -> 5
      [] OTHER -> 6

\* The activities of list s whose category has place r, in their order in s.
OfRank(s, r) == LET Keep(a) == PriorityRank(a) = r IN SelectSeq(s, Keep)

\* C11: optimize_route emits the activities grouped in the priority order
\* (every activity of an earlier category before every one of a later
\* category, the unlisted ones last), and inside each group, the unlisted
\* group included, in the relative order of the input.
C11_GroupedStable ==
    route.op = "optimize_route" =>
        /\ \A i, j \in DOMAIN route.result :
             i < j => PriorityRank(route.result[i]) <= PriorityRank(route.result[j])
        /\ \A r \in 1..6 : OfRank(route.result, r) = OfRank(route.activities, r)

\* C11 witness: two cultura activities given after an entretenimiento and an
\* unlisted one; they come first, b still before a.
C11_Witness ==
    /\ route.op = "optimize_route"
    /\ route.activities =
         << [activity_name |-> "b", category |-> "otra"],
            [activity_name |-> "b", category |-> "entretenimiento"],
            [activity_name |-> "b", category |-> "cultura"],
            [activity_name |-> "a", category |-> "cultura"] >>
    /\ route.result =
         << [activity_name |-> "b", category |-> "cultura"],
            [activity_name |-> "a", category |-> "cultura"],
            [activity_name |-> "b", category |-> "entretenimiento"],
            [activity_name |-> "b", category |-> "otra"] >>

-----------------------------------------------------------------------------
(* Claims about optimize_budget *)

Abs(x) == IF x < 0 THEN -x ELSE x

\* The printed amount p (cents) is the fraction num/den to the nearest cent.
NearestCent(p, num, den) == 2 * Abs(p * den - num) <= den

Breakdown == budg.op = "optimize_budget" /\ budg.result.kind = "breakdown"

AllocationSum ==
    budg.result.activity_budget + budg.result.food_budget
        + budg.result.accommodation_budget + budg.result.misc_budget

\* C12: optimize_budget returns the "Flight cost exceeds total budget" error
\* text exactly when flight_cost > total_budget, and that text carries no
\* allocation; with flight_cost <= total_budget, equality included, it returns
\* a breakdown (dataset readable, city a plain text).
C12_ErrorIffOverspent ==
    budg.op = "optimize_budget" =>
        /\ budg.result.kind = "text" <=> budg.flight_cost > budg.total_budget
        /\ budg.result.kind = "text" =>
              /\ DOMAIN budg.result = {"kind", "text"}
              /\ budg.result.text = <<"Error: Flight cost ($", budg.flight_cost,
                                      ") exceeds total budget ($", budg.total_budget, ")">>
        /\ budg.flight_cost <= budg.total_budget =>
              /\ budg.result.kind = "breakdown"
              /\ budg.result.remaining_budget = budg.total_budget - budg.flight_cost

\* C12 witness: total budget 1000.00 against a flight of 1200.00 gives the
\* error text.
C12_Witness ==
    /\ budg.op = "optimize_budget"
    /\ budg.total_budget = 100000
    /\ budg.flight_cost = 120000
    /\ budg.result.kind = "text"

\* C13 as stated: the four allocations of a breakdown sum exactly to the
\* remaining budget.
C13_SumsExactly ==
    Breakdown => AllocationSum = budg.result.remaining_budget

\* C13: each printed allocation is its share (40, 30, 20, 10 percent) of the
\* remaining budget to the nearest cent; the four sum exactly to the remaining
\* budget when it is a multiple of 10 cents and to within one cent otherwise.
C13_SharesToTheCent ==
    Breakdown =>
        LET r == budg.result
            rem == r.remaining_budget
        IN  /\ NearestCent(r.activity_budget, 4 * rem, 10)
            /\ NearestCent(r.food_budget, 3 * rem, 10)
            /\ NearestCent(r.accommodation_budget, 2 * rem, 10)
            /\ NearestCent(r.misc_budget, 1 * rem, 10)
            /\ Abs(AllocationSum - rem) <= 1
            /\ rem % 10 = 0 =>
                  /\ 10 * r.activity_budget = 4 * rem
                  /\ 10 * r.food_budget = 3 * rem
                  /\ 10 * r.accommodation_budget = 2 * rem
                  /\ 10 * r.misc_budget = 1 * rem
                  /\ AllocationSum = rem

\* C13 witness: 50.00 remaining is split into 20.00, 15.00, 10.00 and 5.00.
C13_Witness ==
    /\ Breakdown
    /\ budg.result.remaining_budget = 5000
    /\ budg.result.activity_budget = 2000
    /\ budg.result.food_budget = 1500
    /\ budg.result.accommodation_budget = 1000
    /\ budg.result.misc_budget = 500

\* C14: the per-day activity and food figures are the activity share and the
\* food share divided by days, printed to the nearest cent, when days > 0, and
\* both are 0 when days <= 0; total 2000, flight 500, days 5 gives activities
\* 600 (120 a day), food 450 (90 a day), accommodation 300, miscellaneous 150.
C14_PerDayFigures ==
    Breakdown =>
        LET r == budg.result
            rem == r.remaining_budget
        IN  /\ budg.days > 0 =>
                  /\ NearestCent(r.activity_per_day, 4 * rem, 10 * budg.days)
                  /\ NearestCent(r.food_per_day, 3 * rem, 10 * budg.days)
                  /\ (4 * rem) % (10 * budg.days) = 0 =>
                        r.activity_per_day * 10 * budg.days = 4 * rem
                  /\ (3 * rem) % (10 * budg.days) = 0 =>
                        r.food_per_day * 10 * budg.days = 3 * rem
            /\ budg.days <= 0 => r.activity_per_day = 0 /\ r.food_per_day = 0
            /\ (budg.total_budget = 200000 /\ budg.flight_cost = 50000 /\ budg.days = 5) =>
                  /\ r.activity_budget = 60000 /\ r.activity_per_day = 12000
                  /\ r.food_budget = 45000 /\ r.food_per_day = 9000
                  /\ r.accommodation_budget = 30000
                  /\ r.misc_budget = 15000

\* C14 witness: total 2000, flight 500, 5 days: 120 and 90 a day.
C14_Witness ==
    /\ Breakdown
    /\ budg.total_budget = 200000 /\ budg.flight_cost = 50000 /\ budg.days = 5
    /\ budg.result.activity_per_day = 12000
    /\ budg.result.food_per_day = 9000

-----------------------------------------------------------------------------
(* Claims about get_recommendations *)

Budgeted ==
    /\ recs.op = "get_recommendations"
    /\ recs.result.kind = "recommendations"
    /\ Truthy(recs.budget)

OfCost(rows, c) == LET Keep(r) == r.cost_usd = c IN SelectSeq(rows, Keep)

\* C15: with a budget given, the rows left by the budget step are the longest
\* prefix of the value-ordered rows whose running cost total is within the
\* budget: no running total of the survivors exceeds the budget, the row after
\* the last survivor overflows it, and no row after that one survives.
C15_MaximalPrefix ==
    Budgeted =>
        LET ranked == recs.locals.ranked
            kept == recs.locals.kept
            n == Len(kept)
        IN  /\ n <= Len(ranked)
            /\ kept = SubSeq(ranked, 1, n)
            /\ \A k \in 1..n : SumCost(SubSeq(kept, 1, k)) <= recs.budget[1]
            /\ n < Len(ranked) => SumCost(SubSeq(ranked, 1, n + 1)) > recs.budget[1]

\* C15 witness: the value sort reordered the rows and the budget cut them after
\* a first row and before the last.
C15_Witness ==
    /\ Budgeted
    /\ recs.locals.ranked # recs.locals.preferred
    /\ 0 < Len(recs.locals.kept)
    /\ Len(recs.locals.kept) < Len(recs.locals.ranked)

\* C16: in the value order every free row stands before every paid row, paid
\* rows stand by descending score 1/max(cost, 1 dollar), rows of equal score by
\* ascending cost, and rows of equal cost in the order of the dataset, so the
\* order is fixed by the dataset and the parameters.
C16_ValueOrder ==
    Budgeted =>
        LET ranked == recs.locals.ranked
            preferred == recs.locals.preferred
        IN  /\ Len(ranked) = Len(preferred)
            /\ \A i, j \in DOMAIN ranked :
                  i < j =>
                    /\ ~(ranked[i].cost_usd > 0 /\ ranked[j].cost_usd = 0)
                    /\ (ranked[i].cost_usd > 0 /\ ranked[j].cost_usd > 0) =>
                          /\ Max(ranked[i].cost_usd, 100) <= Max(ranked[j].cost_usd, 100)
                          /\ Max(ranked[i].cost_usd, 100) = Max(ranked[j].cost_usd, 100)
                                => ranked[i].cost_usd <= ranked[j].cost_usd
            /\ \A r \in DOMAIN preferred :
                  OfCost(ranked, preferred[r].cost_usd) = OfCost(preferred, preferred[r].cost_usd)

\* C16 witness: the dataset lists a row of 1.00 before a row of 0.50 (equal
\* score 1.0) and a paid row before a free one; the value order puts the free
\* row first and 0.50 before 1.00.
C16_Witness ==
    /\ Budgeted
    /\ \E i, j \in DOMAIN recs.locals.preferred :
          i < j /\ recs.locals.preferred[i].cost_usd = 100
                /\ recs.locals.preferred[j].cost_usd = 50
    /\ \E i, j \in DOMAIN recs.locals.preferred :
          i < j /\ recs.locals.preferred[i].cost_usd > 0
                /\ recs.locals.preferred[j].cost_usd = 0
    /\ \E i, j \in DOMAIN recs.locals.ranked :
          i < j /\ recs.locals.ranked[i].cost_usd = 50
                /\ recs.locals.ranked[j].cost_usd = 100

\* C17 as stated: with a budget given the sum of the shown costs can exceed
\* the budget because the display order differs from the ranking order, that
\* is, before the call there are a dataset and parameters with which the rows
\* are shown in another order than they were ranked and at a sum above the
\* budget.
C17_DisplayedSumCanExceed ==
    recs = NoCall =>
        \E df \in RecDatasets, city \in RecCityArgs, preferences \in RecPreferencesArgs,
           budget \in RecBudgetArgs, days \in RecDaysArgs :
            LET locals == Recommend(df, city, preferences, budget)
                res == get_recommendations(df, city, preferences, budget, days)
            IN  /\ Truthy(budget)
                /\ res.kind = "recommendations"
                /\ locals.top_activities # HeadRows(locals.kept, TopN)
                /\ res.total_cost > budget[1]

\* C17: with a positive budget (costs are not negative) the sum of the shown
\* costs never exceeds the budget and no warning is given, whatever the display
\* order; the warning is given exactly when the budget is neither None nor 0
\* and the shown sum is above it, it states the excess, and that happens only
\* for a negative budget, where nothing is shown and the sum is 0.
C17_DisplayedWithinBudget ==
    (recs.op = "get_recommendations" /\ recs.result.kind = "recommendations") =>
        LET r == recs.result IN
        /\ (Truthy(recs.budget) /\ recs.budget[1] > 0) =>
              r.total_cost <= recs.budget[1] /\ r.warning = Absent
        /\ r.warning # Absent <=> (Truthy(recs.budget) /\ r.total_cost > recs.budget[1])
        /\ r.warning # Absent =>
              /\ r.warning = Some(<<"Note: Total exceeds budget by $",
                                    r.total_cost - recs.budget[1], " USD">>)
              /\ recs.budget[1] < 0
              /\ r.items = <<>>

\* C17 witness: a positive budget, rows shown in another order than the value
\* order kept them, at a positive total.
C17_Witness ==
    /\ Budgeted
    /\ recs.budget[1] > 0
    /\ recs.locals.top_activities # HeadRows(recs.locals.kept, TopN)
    /\ recs.result.total_cost > 0

-----------------------------------------------------------------------------
(* Claims about get_weather and convert_usd_to_ars *)

\* C18: get_weather for a city whose lower-cased name is no key of the
\* coordinate table returns the text "Weather data not available for <city>";
\* nothing is raised and the weather service is not contacted.
C18_UnknownCityNotRequested ==
    (wx.op = "get_weather" /\ LowerText(wx.city) \notin city_coords) =>
        /\ ~wx.requested
        /\ wx.answer.kind = "not asked"
        /\ wx.result = [kind |-> "text",
                        text |-> <<"Weather data not available for ", wx.city>>]

\* C18 witness: "par" is part of a key of the table but no key; the call ends
\* with the text and without a request.
C18_Witness ==
    /\ wx.op = "get_weather"
    /\ wx.city = <<"p", "a", "r">>
    /\ ~wx.requested
    /\ wx.result.text = <<"Weather data not available for ", <<"p", "a", "r">>>>

\* C19: convert_usd_to_ars always returns a conversion text: when the request
\* raises, the response cannot be parsed, or it has no 'rates' or no 'ARS'
\* entry, the amount is converted at the rate 1000 and labelled "approximate
\* rate"; exactly when the service gave a rate the text carries the amount at
\* that rate and the label "rate".
C19_FallbackOnFailure ==
    fx.op = "convert_usd_to_ars" =>
        /\ fx.result.kind = "conversion"
        /\ fx.result.amount_usd = fx.amount_usd
        /\ fx.answer.kind # "rate" =>
              /\ fx.result.amount_ars = fx.amount_usd * 1000
              /\ fx.result.label = "approximate rate: "
              /\ fx.result.rate = 1000
        /\ fx.answer.kind = "rate" =>
              /\ NearestCent(fx.result.amount_ars, fx.amount_usd * fx.answer.rate, 1000)
              /\ NearestCent(fx.result.rate, fx.answer.rate, 10)
        /\ fx.result.label = "rate: " <=> fx.answer.kind = "rate"

\* C19 witness: the request raises while 15.00 dollars are converted: 15000.00
\* pesos at the approximate rate.
C19_Witness ==
    /\ fx.op = "convert_usd_to_ars"
    /\ fx.answer.kind = "request raises"
    /\ fx.amount_usd = 1500
    /\ fx.result.amount_ars = 1500000
    /\ fx.result.label = "approximate rate: "

WxFailures == {"request raises", "json raises", "no daily"}

\* C20 as stated: when the lookup fails for a known city (the request raises,
\* the response cannot be parsed, or it has no daily data) the result is the
\* text that the forecast is not available.
C20_FailureSaysNotAvailable ==
    (wx.op = "get_weather" /\ wx.requested /\ wx.answer.kind \in WxFailures) =>
        wx.result = [kind |-> "text",
                     text |-> <<"Weather forecast not available for ", wx.city>>]

\* C20: for a known city get_weather never raises; a response without daily
\* data gives "Weather forecast not available for <city>", while a raising
\* request, an unparsable response or daily data lacking a field give the text
\* "Error getting weather forecast: <detail>"; a forecast is returned exactly
\* when the service gave daily data.
C20_FailureTexts ==
    (wx.op = "get_weather" /\ wx.requested) =>
        /\ wx.result.kind \in {"text", "forecast"}
        /\ wx.answer.kind = "no daily" =>
              wx.result = [kind |-> "text",
                           text |-> <<"Weather forecast not available for ", wx.city>>]
        /\ wx.answer.kind \in {"request raises", "json raises", "daily without time"} =>
              /\ wx.result.kind = "text"
              /\ wx.result.text[1] = "Error getting weather forecast: "
        /\ wx.result.kind = "forecast" <=> wx.answer.kind = "daily"

\* C20 witness: the request for Paris raises and the call returns the error
\* text.
C20_Witness ==
    /\ wx.op = "get_weather"
    /\ wx.city = <<"P", "a", "r", "i", "s">>
    /\ wx.requested
    /\ wx.answer.kind = "request raises"
    /\ wx.result = [kind |-> "text",
                    text |-> <<"Error getting weather forecast: ", "ConnectionError">>]

-----------------------------------------------------------------------------
(* Claims about the costs and the day count of plan_itinerary *)

\* The sum of a list of numbers.
RECURSIVE SumOver(_)
SumOver(nums) == IF nums = <<>> THEN 0 ELSE Head(nums) + SumOver(Tail(nums))

\* The activities left by the filters of the last plan_itinerary call.
PlannedRecords == activities_list(itin.df, itin.city, itin.activities, itin.preferences)

\* The costs of the activities in the bucket of day d, backfill included.
BucketCosts(d) ==
    [k \in DOMAIN itin.result.plan[d].idx |->
        PlannedRecords[itin.result.plan[d].idx[k] + 1].cost_usd]

\* The sum of the reported per-day costs.
PerDaySum == SumOver([d \in DOMAIN itin.result.plan |-> itin.result.plan[d].total_cost])

\* C22: the reported trip total is the sum of the costs of all activities left
\* by the filters, whatever days is and whichever activities the days hold or
\* cycle back to; every day's reported cost is the sum of the costs of the
\* activities of that day's bucket.
C22_TotalsReported ==
    (itin.op = "plan_itinerary" /\ itin.result.kind = "itinerary") =>
        /\ itin.result.total_trip_cost =
              SumOver([i \in DOMAIN PlannedRecords |-> PlannedRecords[i].cost_usd])
        /\ \A d \in DOMAIN itin.result.plan :
              itin.result.plan[d].total_cost = SumOver(BucketCosts(d))

\* C22 witness: a day cycles back to an activity that costs something, so the
\* per-day costs add up to more than the trip total.
C22_Witness ==
    /\ Planned
    /\ \E d \in DOMAIN itin.result.plan :
          itin.result.plan[d].cycled /\ itin.result.plan[d].total_cost > 0
    /\ PerDaySum > itin.result.total_trip_cost

\* C29: with activities left by the filters plan_itinerary raises for no days:
\* days = 0 gives the text "Error planning itinerary: ..." of the caught
\* division by zero, days < 0 gives an itinerary with no day section and the
\* trip total; no day bucket is produced in either case.
C29_NoDaysNoBuckets ==
    (itin.op = "plan_itinerary" /\ PlannedRecords # <<>>) =>
        /\ itin.result.kind \in {"text", "itinerary"}
        /\ itin.days = 0 =>
              /\ itin.result.kind = "text"
              /\ itin.result.text[1] = "Error planning itinerary: "
        /\ itin.days < 0 =>
              /\ itin.result.kind = "itinerary"
              /\ itin.result.plan = <<>>
              /\ itin.result.total_trip_cost =
                    SumOver([i \in DOMAIN PlannedRecords |-> PlannedRecords[i].cost_usd])

\* C29 witness: days = -1 with activities costing something: no day section,
\* a positive trip total.
C29_Witness ==
    /\ itin.op = "plan_itinerary"
    /\ itin.days = -1
    /\ itin.result.kind = "itinerary"
    /\ itin.result.plan = <<>>
    /\ itin.result.total_trip_cost > 0

\* C30: with costs not negative and n >= 1 activities left by the filters, the
\* per-day costs add up to at most the trip total when n >= days >= 1, to
\* exactly the trip total when moreover days divides n, and to at least the
\* trip total when n < days.
C30_PerDaySumAgainstTotal ==
    Planned =>
        /\ PlannedN >= itin.days => PerDaySum <= itin.result.total_trip_cost
        /\ (PlannedN >= itin.days /\ PlannedN % itin.days = 0) =>
              PerDaySum = itin.result.total_trip_cost
        /\ PlannedN < itin.days => PerDaySum >= itin.result.total_trip_cost

\* C30 witness: 3 activities over 2 days; the third one costs something and is
\* in no day, so the per-day costs stay below the trip total.
C30_Witness ==
    /\ Planned
    /\ PlannedN = 3
    /\ itin.days = 2
    /\ PerDaySum < itin.result.total_trip_cost

-----------------------------------------------------------------------------
(* Idempotence of optimize_route *)

\* C27: optimize_route applied to its own result returns that result.
C27_RouteIdempotent ==
    route.op = "optimize_route" =>
        optimize_route(route.result, route.city) = route.result

\* C27 witness: a list that the call reordered, with two different activities
\* of no listed category, is left as it is by a second call.
C27_Witness ==
    /\ route.op = "optimize_route"
    /\ route.result # route.activities
    /\ \E i, j \in DOMAIN route.result :
          /\ i < j
          /\ route.result[i] # route.result[j]
          /\ PriorityRank(route.result[i]) = 6
          /\ PriorityRank(route.result[j]) = 6
    /\ optimize_route(route.result, route.city) = route.result

-----------------------------------------------------------------------------
(* Claims about the list get_recommendations shows *)

Recommended == recs.op = "get_recommendations" /\ recs.result.kind = "recommendations"

\* The shown item and the dataset row are the same activity.
SameActivity(item, row) ==
    /\ item.activity_name = row.activity_name
    /\ item.category = row.category
    /\ item.cost_usd = row.cost_usd

\* C23: get_recommendations shows at most 10 activities, all of them rows left
\* by the preference and budget steps (none more often than it was left),
\* in ascending order of cost and, at equal cost, of category, whatever the
\* value order was; the reported total is the sum of the shown costs.
C23_ShownList ==
    Recommended =>
        LET items == recs.result.items
            kept == recs.locals.kept
        IN  /\ Len(items) <= 10
            /\ Len(items) = Min(10, Len(kept))
            /\ \A i \in DOMAIN items :
                  Cardinality({j \in DOMAIN items : SameActivity(items[j], items[i])})
                    <= Cardinality({k \in DOMAIN kept : SameActivity(items[i], kept[k])})
            /\ \A i, j \in DOMAIN items :
                  i < j =>
                    \/ items[i].cost_usd < items[j].cost_usd
                    \/ /\ items[i].cost_usd = items[j].cost_usd
                       /\ ~StrLess(items[j].category, items[i].category)
            /\ recs.result.total_cost =
                  SumOver([i \in DOMAIN items |-> items[i].cost_usd])

\* C23 witness: more than 10 rows are within the budget, 10 are shown, and
\* not in the value order.
C23_Witness ==
    /\ Budgeted
    /\ Len(recs.locals.kept) > 10
    /\ Len(recs.result.items) = 10
    /\ recs.locals.top_activities # HeadRows(recs.locals.kept, TopN)
    /\ recs.result.total_cost > 0

\* C28: get_recommendations with budget = 0 returns what the same call without
\* a budget returns: no value order and no cutoff are applied and no warning is
\* given, also when the shown total is positive.
C28_ZeroBudgetIsNoBudget ==
    (Recommended /\ recs.budget = Some(0)) =>
        /\ recs.result =
              get_recommendations(recs.df, recs.city, recs.preferences, Absent, recs.days)
        /\ recs.locals.ranked = recs.locals.preferred
        /\ recs.locals.kept = recs.locals.preferred
        /\ recs.result.header = <<"Top Recommendations:">>
        /\ recs.result.warning = Absent

\* C28 witness: budget 0 and a shown total above 0.
C28_Witness ==
    /\ Recommended
    /\ recs.budget = Some(0)
    /\ recs.result.total_cost > 0
    /\ recs.result.warning = Absent

-----------------------------------------------------------------------------
(* Claims about the affordability sample of optimize_budget *)

\* The row costs no more than the activity share of a day (0 when days <= 0).
WithinDailyAllowance(row) ==
    IF budg.days > 0
    THEN row.cost_usd * 100 * 10 * budg.days <= 4 * budg.result.remaining_budget
    ELSE row.cost_usd <= 0

\* The rows of the dataset for the city of the call.
BudgetCityRows == CityFilter(budg.df, budg.city)

NoneQualifies == \A i \in DOMAIN BudgetCityRows : ~WithinDailyAllowance(BudgetCityRows[i])

\* C24 as stated: a breakdown lists at most 5 activities of the city, each
\* within the daily allowance, and whenever no activity qualifies it says that
\* free activities or a budget adjustment should be considered.
C24_NoneQualifiesSaysConsider ==
    Breakdown =>
        /\ Len(budg.result.sample) <= 5
        /\ \A i \in DOMAIN budg.result.sample : WithinDailyAllowance(budg.result.sample[i])
        /\ NoneQualifies => budg.result.consider_free

\* C24: a breakdown lists the first (at most 5) activities of the city that
\* are within the daily allowance; when the city has activities and none
\* qualifies it says that free activities or a budget adjustment should be
\* considered; when the dataset has no activity of the city the output has no
\* sample section and no such advice.
C24_AffordabilitySample ==
    Breakdown =>
        LET sample == budg.result.sample
            qualifying ==
                LET Keep(r) == WithinDailyAllowance(r) IN SelectSeq(BudgetCityRows, Keep)
        IN  /\ Len(sample) <= 5
            /\ sample = SubSeq(qualifying, 1, Min(5, Len(qualifying)))
            /\ \A i \in DOMAIN sample :
                  /\ WithinDailyAllowance(sample[i])
                  /\ ContainsCI(sample[i].city, budg.city)
            /\ budg.result.sample_shown <=> BudgetCityRows # <<>>
            /\ budg.result.consider_free <=> (BudgetCityRows # <<>> /\ NoneQualifies)
            /\ BudgetCityRows = <<>> => (sample = <<>> /\ ~budg.result.consider_free)

\* C24 witness: six activities of the city are within the daily allowance and
\* five are listed.
C24_Witness ==
    /\ Breakdown
    /\ Len(BudgetCityRows) = 6
    /\ \A i \in DOMAIN BudgetCityRows : WithinDailyAllowance(BudgetCityRows[i])
    /\ Len(budg.result.sample) = 5
    /\ budg.result.sample = SubSeq(BudgetCityRows, 1, 5)

-----------------------------------------------------------------------------
(* Claims about what a supervisor tool returns and about failed construction *)

\* C25: a supervisor tool call in which nothing was raised returns
\* str(last_message.content) when the worker's result has messages and the
\* last one has a content attribute, and str(result) when the messages are
\* missing or empty or the last one has no content attribute; every finished
\* call, failed or not, has returned a string.
C25_ReturnsText ==
    \A t \in Threads :
        pc[t] = "done" =>
            /\ result[t] # <<>>
            /\ exc[t] = NoExc =>
                  \/ result[t] = <<"str(content)">>
                  \/ /\ Len(result[t]) = 2
                     /\ result[t][1] = "str(result)"
                     /\ result[t][2] \in {"no_content_attr", "no_messages"}

\* C25 witness: one call has returned the content of the last message, another
\* the string form of a result without messages.
C25_Witness ==
    \E t, u \in Threads :
        /\ pc[t] = "done" /\ exc[t] = NoExc /\ result[t] = <<"str(content)">>
        /\ pc[u] = "done" /\ exc[u] = NoExc /\ result[u] = <<"str(result)", "no_messages">>

\* One step of the tools, seen from construction failures.
C26_Step ==
    \A t \in Threads :
        /\ (pc[t] = "construct" /\ pc'[t] = "done") =>
              /\ agents' = agents
              /\ agents'[kind[t]] = None
              /\ result'[t] = ErrorText(kind[t], ConstructError)
        /\ (pc[t] = "get" /\ pc'[t] # "get"
                /\ fails[kind[t]] > 0 /\ created[kind[t]] = 0) =>
              pc'[t] = "construct"

\* C26: with tool calls made one after the other, a call in which
\* create_<kind>_agent() raises leaves the global of its kind None and the
\* other globals as they were and returns the error text; the next call for
\* that kind runs the constructor again.
C26_FailedConstructionNotCached == [][C26_Step]_vars

\* C26 witness: the weather constructor raised once, and a later weather call
\* constructed and stored the instance.
C26_Witness ==
    /\ fails["weather"] = 1
    /\ created["weather"] = 1
    /\ agents["weather"] = 1

-----------------------------------------------------------------------------
(* Claim about failures leaving a tool function *)

\* C21: no tool function lets a failure escape: every error inside it is
\* returned as its result and nothing is raised to the caller, for every input.
C21_NoFailureEscapes == escaped = NoCall

=============================================================================
